---- MODULE Spec2Model ----
(***************************************************************************)
(* Model of the ESP8266 software servo library (SoftwareServo.h and its    *)
(* implementation file).  One os_timer is multiplexed over MAX_SERVOS      *)
(* channel slots; SoftwareServo objects (handles) claim slots with         *)
(* attach(), command pulse widths with write()/writeMicroseconds() and     *)
(* release with detach(); software_servo_timer_tick() is the timer         *)
(* callback that emits one pulse and re-arms the timer.                    *)
(***************************************************************************)
EXTENDS Integers, Sequences, FiniteSets

\* ---------------------------------------------------------------- constants

DEFAULT_MIN_PULSE_WIDTH == 1000
DEFAULT_MAX_PULSE_WIDTH == 2000
DEFAULT_NEUTRAL_PULSE_WIDTH == 1500
REFRESH_INTERVAL == 5
MAX_SERVOS == 4

\* ------------------------------------------------------------------- bounds

\* number of SoftwareServo objects the sketch owns
NumHandles == 5

\* number of them the sketch of Spec uses
NumLife == 2

\* number of them the sketch of LiveSpec uses
NumLive == 3

\* number of them the sketch of SpecWrite uses
NumWrite == 2

\* number of them the sketch of SpecRead uses
NumRead == 1

\* number of them the sketch of SpecStep uses
NumStep == 1

Handles == 0 .. (NumHandles - 1)
LifeHandles == 0 .. (NumLife - 1)
LiveHandles == 0 .. (NumLive - 1)
WriteHandles == 0 .. (NumWrite - 1)
ReadHandles == 0 .. (NumRead - 1)
StepHandles == 0 .. (NumStep - 1)
Slots == 0 .. (MAX_SERVOS - 1)

\* GPIO numbers the sketch passes to attach()
Pins == {0, 5}

\* (min, max) pairs the sketch passes to attach(pin, min, max[, value])
BoundsArgs == {<<1000, 2000>>, <<100, 1400>>, <<2500, 5000>>}

\* values the sketch passes to write()
\* the values a division by zero that does not trap is taken to leave behind
DivZeroValues == {0, 181}
\* the (minUs, maxUs) pairs and the values of SpecRead
ReadBounds == {<<1000, 2000>>, <<2000, 1000>>, <<0, 65535>>, <<65535, 0>>}
ReadValues == {0, 90, 180, 1200}
\* the (minUs, maxUs) pairs and the values of SpecStep
StepBounds == {<<1000, 2000>>, <<100, 1400>>}
StepValues == {0, 180}
StepMicros == {1200}
WriteValues == {-7, 0, 50, 90, 180, 199, 200, 2500}

\* values the sketch passes to writeMicroseconds()
MicrosValues == {-7, 150, 1200, 2200, 5000}

\* the value of `ret` after a step that returns nothing
NoRet == -1

\* ------------------------------------------------------------------- state

VARIABLES
    software_servo_pins,                \* int[MAX_SERVOS], -1 = free
    software_servo_pulse_lenght,        \* int[MAX_SERVOS]
    software_servo_current_servo,       \* cursor of the emitter
    software_servo_map,                 \* bitmask of active channels
    software_servo_next_servo,          \* schedule: successor slot
    software_servo_time_to_next_pulse,  \* schedule: delay to the successor
    timer_armed,                        \* os_timer armed?
    timer_period,                       \* period given to os_timer_arm
    _id, _attached, _minUs, _maxUs,     \* fields of each SoftwareServo
    pin_output,                         \* pins put in OUTPUT mode
    ret,                                \* value returned by the last call
    run,                                \* pulses emitted by the emitter
                                        \* since the last user call
    sketch_idle,                        \* the sketch makes no more calls
    call                                \* the user call in progress, where
                                        \* the calls run statement by statement

table == <<software_servo_pins, software_servo_pulse_lenght, software_servo_map>>
schedule == <<software_servo_next_servo, software_servo_time_to_next_pulse>>
timer == <<timer_armed, timer_period>>
handles == <<_id, _attached, _minUs, _maxUs>>
sketch == <<sketch_idle, call>>
vars == <<table, software_servo_current_servo, schedule, timer, handles,
          pin_output, ret, run, sketch>>

\* no user call in progress
NoCall == [pc |-> "idle", op |-> "none", h |-> 0, pin |-> 0, minUs |-> 0,
           maxUs |-> 0, value |-> 0, i |-> 0, finded |-> 0]

\* ----------------------------------------------------------------- helpers

\* C integer division (truncates toward zero), divisor non-zero
CDiv(a, b) ==
    IF (a >= 0) = (b > 0)
    THEN (IF a >= 0 THEN a ELSE -a) \div (IF b > 0 THEN b ELSE -b)
    ELSE -((IF a >= 0 THEN a ELSE -a) \div (IF b > 0 THEN b ELSE -b))

Min2(a, b) == IF a < b THEN a ELSE b
Max2(a, b) == IF a > b THEN a ELSE b

\* constrain() that forgets the upper limit
constrain_low_only(amt, low, high) ==
    IF amt < low THEN low ELSE amt

\* Arduino's constrain(amt, low, high)
constrain(amt, low, high) ==
    IF amt < low THEN low ELSE IF amt > high THEN high ELSE amt

RECURSIVE Pow2(_)
Pow2(n) == IF n = 0 THEN 1 ELSE 2 * Pow2(n - 1)

\* bit i of the non-negative integer m
Bit(m, i) == (m \div Pow2(i)) % 2

\* m | (1 << i)  and  m & ~(1 << i)
SetBit(m, i) == IF Bit(m, i) = 1 THEN m ELSE m + Pow2(i)
ClearBit(m, i) == IF Bit(m, i) = 1 THEN m - Pow2(i) ELSE m

\* conversion of an int to uint8_t
ToUint8(x) == x % 256

improved_map(value, minIn, maxIn, minOut, maxOut) ==
    LET rangeIn == maxIn - minIn
        rangeOut == maxOut - minOut
        deltaIn == value - minIn
        fixedHalfDecimal == 1
        fixedDecimal == fixedHalfDecimal * 2
    IN  CDiv(CDiv(deltaIn * rangeOut * fixedDecimal, rangeIn) + fixedHalfDecimal,
             fixedDecimal) + minOut

\* ---------------------------------------------------------- schedule builder

\* the inner loop without `tmp_time += REFRESH_INTERVAL` for a skipped slot
RECURSIVE scan_from_flat(_, _, _, _)
scan_from_flat(pins, i, ii, tmp_time) ==
    IF ii >= MAX_SERVOS
    THEN [found |-> FALSE, slot |-> -1, time |-> tmp_time]
    ELSE IF pins[(ii + i + 1) % MAX_SERVOS] = -1
         THEN scan_from_flat(pins, i, ii + 1, tmp_time)
         ELSE [found |-> TRUE, slot |-> (ii + i + 1) % MAX_SERVOS, time |-> tmp_time]

\* the inner loop bounded by MAX_SERVOS - 1: slot i itself is never reached
RECURSIVE scan_from_others(_, _, _, _)
scan_from_others(pins, i, ii, tmp_time) ==
    IF ii >= MAX_SERVOS - 1
    THEN [found |-> FALSE, slot |-> -1, time |-> tmp_time]
    ELSE IF pins[(ii + i + 1) % MAX_SERVOS] = -1
         THEN scan_from_others(pins, i, ii + 1, tmp_time + REFRESH_INTERVAL)
         ELSE [found |-> TRUE, slot |-> (ii + i + 1) % MAX_SERVOS, time |-> tmp_time]

\* one pass of the inner loop of find_times_between_pulses() for slot i,
\* from inner index ii with tmp_time accumulated so far: the slot found and
\* its delay, or found = FALSE when the scan runs past MAX_SERVOS slots
RECURSIVE scan_from(_, _, _, _)
scan_from(pins, i, ii, tmp_time) ==
    IF ii >= MAX_SERVOS
    THEN [found |-> FALSE, slot |-> -1, time |-> tmp_time]
    ELSE IF pins[(ii + i + 1) % MAX_SERVOS] = -1
         THEN scan_from(pins, i, ii + 1, tmp_time + REFRESH_INTERVAL)
         ELSE [found |-> TRUE, slot |-> (ii + i + 1) % MAX_SERVOS, time |-> tmp_time]

\* find_times_between_pulses() that returns the number of assigned slots
find_times_count_assigned(pins, next_servo, time_to_next) ==
    LET r == [i \in Slots |-> scan_from(pins, i, 0, REFRESH_INTERVAL)]
    IN  [next   |-> [i \in Slots |-> IF r[i].found THEN r[i].slot ELSE next_servo[i]],
         time   |-> [i \in Slots |-> IF r[i].found THEN r[i].time ELSE time_to_next[i]],
         finded |-> Cardinality({i \in Slots : pins[i] # -1})]

\* find_times_between_pulses(): the new schedule and the returned count
find_times_between_pulses(pins, next_servo, time_to_next) ==
    LET r == [i \in Slots |-> scan_from(pins, i, 0, REFRESH_INTERVAL)]
    IN  [next   |-> [i \in Slots |-> IF r[i].found THEN r[i].slot ELSE next_servo[i]],
         time   |-> [i \in Slots |-> IF r[i].found THEN r[i].time ELSE time_to_next[i]],
         finded |-> Cardinality({i \in Slots : r[i].found})]

\* --------------------------------------------------------------- user calls

\* body of writeMicroseconds(value) of handle h, run on the table and the
\* handle fields given (attach() calls it after changing them)
writeMicroseconds_body(h, value, pins, pulse, id, att, minUs, maxUs) ==
    LET v == constrain(value, minUs, maxUs)
    IN  IF att
        THEN /\ software_servo_pulse_lenght' = [pulse EXCEPT ![id] = v]
             /\ \E s \in {find_times_between_pulses(pins, software_servo_next_servo,
                                                      software_servo_time_to_next_pulse)} :
                 /\ software_servo_next_servo' = s.next
                 /\ software_servo_time_to_next_pulse' = s.time
                 /\ IF s.finded > 0
                    THEN /\ software_servo_map' = SetBit(software_servo_map, id)
                         /\ timer_armed' = TRUE
                         /\ timer_period' = s.time[software_servo_current_servo]
                    ELSE /\ software_servo_map' = ClearBit(software_servo_map, id)
                         /\ timer_armed' = FALSE
                         /\ timer_period' = timer_period
        ELSE /\ software_servo_pulse_lenght' = pulse
             /\ UNCHANGED <<software_servo_map, schedule, timer>>

\* write() that takes only values below 180 for angles
write_body_180(h, value, pins, pulse, id, att, minUs, maxUs) ==
    LET us == IF value < 180
              THEN improved_map(constrain(value, 0, 180), 0, 180, minUs, maxUs)
              ELSE value
    IN  writeMicroseconds_body(h, us, pins, pulse, id, att, minUs, maxUs)

\* body of write(value)
write_body(h, value, pins, pulse, id, att, minUs, maxUs) ==
    LET us == IF value < 200
              THEN improved_map(constrain(value, 0, 180), 0, 180, minUs, maxUs)
              ELSE value
    IN  writeMicroseconds_body(h, us, pins, pulse, id, att, minUs, maxUs)

\* the search loop falling back to slot 0 when no slot is free
RECURSIVE first_free_or_zero(_, _)
first_free_or_zero(pins, i) ==
    IF i >= MAX_SERVOS THEN 0
    ELSE IF pins[i] = -1 THEN i
    ELSE first_free_or_zero(pins, i + 1)

\* the search loop without its `break`: the last free slot wins
RECURSIVE first_free_last(_, _)
first_free_last(pins, i) ==
    IF i >= MAX_SERVOS THEN -1
    ELSE IF first_free_last(pins, i + 1) # -1 THEN first_free_last(pins, i + 1)
    ELSE IF pins[i] = -1 THEN i
    ELSE -1

\* the search loop of attach(): the first free slot at or after i, -1 when
\* there is none
RECURSIVE first_free(_, _)
first_free(pins, i) ==
    IF i >= MAX_SERVOS THEN -1
    ELSE IF pins[i] = -1 THEN i
    ELSE first_free(pins, i + 1)

\* attach() that clamps minUs to the range without regard to maxUs
attach_independent_min(h, pin, minUs, maxUs, value) ==
    \E slot \in {first_free(software_servo_pins, 0)} :
    LET claim == ~_attached[h] /\ slot # -1
        id1 == IF claim THEN slot ELSE _id[h]
        pins1 == IF claim
                 THEN [software_servo_pins EXCEPT ![slot] = pin]
                 ELSE software_servo_pins
        pulse1 == IF claim
                  THEN [software_servo_pulse_lenght EXCEPT ![slot] = value]
                  ELSE software_servo_pulse_lenght
        newMax == Max2(250, Min2(3000, maxUs))
        newMin == Max2(200, Min2(3000, minUs))
    IN  /\ run' = <<>>
        /\ pin_output' = IF ~_attached[h] THEN pin_output \cup {pin} ELSE pin_output
        /\ UNCHANGED software_servo_current_servo
        /\ IF ~_attached[h] /\ id1 = -1
           THEN /\ ret' = 0
                /\ UNCHANGED <<table, schedule, timer, handles>>
           ELSE /\ software_servo_pins' = pins1
                /\ _id' = [_id EXCEPT ![h] = id1]
                /\ _attached' = [_attached EXCEPT ![h] = TRUE]
                /\ _maxUs' = [_maxUs EXCEPT ![h] = newMax]
                /\ _minUs' = [_minUs EXCEPT ![h] = newMin]
                /\ write_body(h, value, pins1, pulse1, id1, TRUE, newMin, newMax)
                /\ ret' = ToUint8(pin)

\* attach(pin, minUs, maxUs, value)
attach(h, pin, minUs, maxUs, value) ==
    \E slot \in {first_free(software_servo_pins, 0)} :
    LET claim == ~_attached[h] /\ slot # -1
        id1 == IF claim THEN slot ELSE _id[h]
        pins1 == IF claim
                 THEN [software_servo_pins EXCEPT ![slot] = pin]
                 ELSE software_servo_pins
        pulse1 == IF claim
                  THEN [software_servo_pulse_lenght EXCEPT ![slot] = value]
                  ELSE software_servo_pulse_lenght
        newMax == Max2(250, Min2(3000, maxUs))
        newMin == Max2(200, Min2(newMax, minUs))
    IN  /\ run' = <<>>
        /\ pin_output' = IF ~_attached[h] THEN pin_output \cup {pin} ELSE pin_output
        /\ UNCHANGED software_servo_current_servo
        /\ IF ~_attached[h] /\ id1 = -1
           THEN /\ ret' = 0
                /\ UNCHANGED <<table, schedule, timer, handles>>
           ELSE /\ software_servo_pins' = pins1
                /\ _id' = [_id EXCEPT ![h] = id1]
                /\ _attached' = [_attached EXCEPT ![h] = TRUE]
                /\ _maxUs' = [_maxUs EXCEPT ![h] = newMax]
                /\ _minUs' = [_minUs EXCEPT ![h] = newMin]
                /\ write_body(h, value, pins1, pulse1, id1, TRUE, newMin, newMax)
                /\ ret' = ToUint8(pin)

\* attach(pin, minUs, maxUs)
attach3(h, pin, minUs, maxUs) ==
    attach(h, pin, minUs, maxUs, DEFAULT_NEUTRAL_PULSE_WIDTH)

\* attach(pin)
attach1(h, pin) ==
    attach3(h, pin, DEFAULT_MIN_PULSE_WIDTH, DEFAULT_MAX_PULSE_WIDTH)

\* detach() that leaves the bit of the slot set
detach_keep_bit(h) ==
    /\ run' = <<>>
    /\ ret' = NoRet
    /\ IF _attached[h]
       THEN /\ software_servo_pulse_lenght' =
                   [software_servo_pulse_lenght EXCEPT ![_id[h]] = DEFAULT_NEUTRAL_PULSE_WIDTH]
            /\ _id' = [_id EXCEPT ![h] = -1]
            /\ _attached' = [_attached EXCEPT ![h] = FALSE]
            /\ UNCHANGED <<software_servo_pins, software_servo_map, _minUs, _maxUs>>
       ELSE UNCHANGED <<table, handles>>
    /\ UNCHANGED <<software_servo_current_servo, schedule, timer, pin_output>>

\* detach() that leaves the slot id in the handle
detach_keep_id(h) ==
    /\ run' = <<>>
    /\ ret' = NoRet
    /\ IF _attached[h]
       THEN /\ software_servo_map' = ClearBit(software_servo_map, _id[h])
            /\ software_servo_pulse_lenght' =
                   [software_servo_pulse_lenght EXCEPT ![_id[h]] = DEFAULT_NEUTRAL_PULSE_WIDTH]
            /\ _attached' = [_attached EXCEPT ![h] = FALSE]
            /\ UNCHANGED <<software_servo_pins, _id, _minUs, _maxUs>>
       ELSE UNCHANGED <<table, handles>>
    /\ UNCHANGED <<software_servo_current_servo, schedule, timer, pin_output>>

detach(h) ==
    /\ run' = <<>>
    /\ ret' = NoRet
    /\ IF _attached[h]
       THEN /\ software_servo_map' = ClearBit(software_servo_map, _id[h])
            /\ software_servo_pulse_lenght' =
                   [software_servo_pulse_lenght EXCEPT ![_id[h]] = DEFAULT_NEUTRAL_PULSE_WIDTH]
            /\ _id' = [_id EXCEPT ![h] = -1]
            /\ _attached' = [_attached EXCEPT ![h] = FALSE]
            /\ UNCHANGED <<software_servo_pins, _minUs, _maxUs>>
       ELSE UNCHANGED <<table, handles>>
    /\ UNCHANGED <<software_servo_current_servo, schedule, timer, pin_output>>

write(h, value) ==
    /\ run' = <<>>
    /\ ret' = NoRet
    /\ write_body(h, value, software_servo_pins, software_servo_pulse_lenght,
                  _id[h], _attached[h], _minUs[h], _maxUs[h])
    /\ UNCHANGED <<software_servo_pins, software_servo_current_servo, handles, pin_output>>

writeMicroseconds(h, value) ==
    /\ run' = <<>>
    /\ ret' = NoRet
    /\ writeMicroseconds_body(h, value, software_servo_pins, software_servo_pulse_lenght,
                              _id[h], _attached[h], _minUs[h], _maxUs[h])
    /\ UNCHANGED <<software_servo_pins, software_servo_current_servo, handles, pin_output>>

readMicroseconds(h) ==
    IF _attached[h] THEN software_servo_pulse_lenght[_id[h]] ELSE 0

attached(h) == _attached[h]

\* What improved_map() can yield.  With maxIn = minIn the division of line 45
\* is a division by zero, which is undefined: the build either traps (the
\* exception handler of the SDK then restarts the chip) or goes on with
\* some value.
improved_map_outcomes(value, minIn, maxIn, minOut, maxOut) ==
    IF maxIn - minIn = 0
    THEN {[trap |-> TRUE, value |-> 0]}
             \cup {[trap |-> FALSE, value |-> v] : v \in DivZeroValues}
    ELSE {[trap |-> FALSE,
           value |-> improved_map(value, minIn, maxIn, minOut, maxOut)]}

\* the conversion write() applies to an angle, and what the conversion
\* read() applies to a pulse width can yield
angle_to_us(value, minUs, maxUs) == improved_map(value, 0, 180, minUs, maxUs)
us_to_angle(value, minUs, maxUs) ==
    improved_map_outcomes(value, minUs, maxUs, 0, 180)

\* ------------------------------------------------------------- the emitter

\* the record of one pulse: slot, pin, width (microseconds held high) and
\* the delay the timer was armed with in the same invocation
Pulse(slot, pin, width, delay) ==
    [slot |-> slot, pin |-> pin, width |-> width, delay |-> delay]

\* keep the last MAX_SERVOS + 1 entries: one full cycle and the pulse that
\* starts the next one
Window(s) == IF Len(s) > MAX_SERVOS + 1 THEN Tail(s) ELSE s

\* the emitter pulsing with the neutral width instead of the stored one
software_servo_timer_tick_neutral ==
    /\ timer_armed
    /\ ret' = NoRet
    /\ IF software_servo_map # 0
          /\ software_servo_time_to_next_pulse[software_servo_current_servo] >= 0
       THEN LET cur == software_servo_current_servo
            IN  /\ timer_armed' = TRUE
                /\ timer_period' = software_servo_time_to_next_pulse[cur]
                /\ run' = IF software_servo_pins[cur] >= 0
                          THEN Window(Append(run,
                                   Pulse(cur, software_servo_pins[cur],
                                         DEFAULT_NEUTRAL_PULSE_WIDTH,
                                         software_servo_time_to_next_pulse[cur])))
                          ELSE <<>>
                /\ software_servo_current_servo' = software_servo_next_servo[cur]
       ELSE /\ timer_armed' = FALSE
            /\ run' = <<>>
            /\ UNCHANGED <<timer_period, software_servo_current_servo>>
    /\ UNCHANGED <<table, schedule, handles, pin_output>>

software_servo_timer_tick ==
    /\ timer_armed
    /\ ret' = NoRet
    /\ IF software_servo_map # 0
          /\ software_servo_time_to_next_pulse[software_servo_current_servo] >= 0
       THEN LET cur == software_servo_current_servo
            IN  /\ timer_armed' = TRUE
                /\ timer_period' = software_servo_time_to_next_pulse[cur]
                /\ run' = IF software_servo_pins[cur] >= 0
                          THEN Window(Append(run,
                                   Pulse(cur, software_servo_pins[cur],
                                         software_servo_pulse_lenght[cur],
                                         software_servo_time_to_next_pulse[cur])))
                          ELSE <<>>
                /\ software_servo_current_servo' = software_servo_next_servo[cur]
       ELSE /\ timer_armed' = FALSE
            /\ run' = <<>>
            /\ UNCHANGED <<timer_period, software_servo_current_servo>>
    /\ UNCHANGED <<table, schedule, handles, pin_output>>

\* ------------------------------------------------------------ specification

Init ==
    /\ software_servo_pins = [i \in Slots |-> -1]
    /\ software_servo_pulse_lenght = [i \in Slots |-> DEFAULT_NEUTRAL_PULSE_WIDTH]
    /\ software_servo_current_servo = 0
    /\ software_servo_map = 0
    /\ software_servo_next_servo = [i \in Slots |-> (i + 1) % MAX_SERVOS]
    /\ software_servo_time_to_next_pulse = [i \in Slots |-> REFRESH_INTERVAL]
    /\ timer_armed = FALSE
    /\ timer_period = 0
    /\ _id = [h \in Handles |-> -1]
    /\ _attached = [h \in Handles |-> FALSE]
    /\ _minUs = [h \in Handles |-> DEFAULT_MIN_PULSE_WIDTH]
    /\ _maxUs = [h \in Handles |-> DEFAULT_MAX_PULSE_WIDTH]
    /\ pin_output = {}
    /\ ret = NoRet
    /\ run = <<>>
    /\ sketch_idle = FALSE
    /\ call = NoCall

\* the chip starts again after an exception: the statics and the objects
\* of the sketch are constructed anew and the sketch runs from its start
system_restart ==
    /\ software_servo_pins' = [i \in Slots |-> -1]
    /\ software_servo_pulse_lenght' = [i \in Slots |-> DEFAULT_NEUTRAL_PULSE_WIDTH]
    /\ software_servo_current_servo' = 0
    /\ software_servo_map' = 0
    /\ software_servo_next_servo' = [i \in Slots |-> (i + 1) % MAX_SERVOS]
    /\ software_servo_time_to_next_pulse' = [i \in Slots |-> REFRESH_INTERVAL]
    /\ timer_armed' = FALSE
    /\ timer_period' = 0
    /\ _id' = [h \in Handles |-> -1]
    /\ _attached' = [h \in Handles |-> FALSE]
    /\ _minUs' = [h \in Handles |-> DEFAULT_MIN_PULSE_WIDTH]
    /\ _maxUs' = [h \in Handles |-> DEFAULT_MAX_PULSE_WIDTH]
    /\ pin_output' = {}
    /\ ret' = NoRet
    /\ run' = <<>>
    /\ sketch_idle' = FALSE
    /\ call' = NoCall

\* read(): returns one of the outcomes of the conversion, or traps and the
\* chip starts again
read(h) ==
    \E o \in us_to_angle(readMicroseconds(h), _minUs[h], _maxUs[h]) :
        IF o.trap
        THEN system_restart
        ELSE /\ ret' = o.value
             /\ run' = <<>>
             /\ UNCHANGED <<table, software_servo_current_servo, schedule,
                            timer, handles, pin_output, sketch>>

\* a call of readMicroseconds()
readMicroseconds_call(h) ==
    /\ ret' = readMicroseconds(h)
    /\ run' = <<>>
    /\ UNCHANGED <<table, software_servo_current_servo, schedule,
                   timer, handles, pin_output, sketch>>

\* The sketch (setup() and loop()) makes its calls while it still runs:
\* every call below is guarded by ~sketch_idle.

\* the timer fires and the SDK runs the callback
Fire == software_servo_timer_tick /\ UNCHANGED sketch

\* the sketch stops calling the library; only the timer runs from here on
Idle == ~sketch_idle /\ sketch_idle' = TRUE /\ UNCHANGED
            <<table, software_servo_current_servo, schedule, timer, handles,
              pin_output, ret, run, call>>

\* Spec: the life cycle of the channels.  Each servo is attached with the
\* default calibration, written to and detached, in any order.
LifeAttach == \E h \in LifeHandles, pin \in Pins :
        ~sketch_idle /\ attach1(h, pin) /\ UNCHANGED sketch
LifeDetach == \E h \in LifeHandles :
        ~sketch_idle /\ detach(h) /\ UNCHANGED sketch
LifeWrite == \E h \in LifeHandles :
        ~sketch_idle /\ write(h, 0) /\ UNCHANGED sketch

Next ==
    \/ LifeAttach
    \/ LifeDetach
    \/ LifeWrite
    \/ Fire

Spec == Init /\ [][Next]_vars

\* LiveSpec: a sketch that may stop calling; the SDK runs the callback of an
\* armed timer when its period elapses.
LiveAttach == \E h \in LiveHandles :
        ~sketch_idle /\ attach1(h, 5) /\ UNCHANGED sketch
LiveDetach == \E h \in LiveHandles :
        ~sketch_idle /\ detach(h) /\ UNCHANGED sketch
LiveWrite == \E h \in LiveHandles :
        ~sketch_idle /\ write(h, 0) /\ UNCHANGED sketch

NextLive ==
    \/ LiveAttach
    \/ LiveDetach
    \/ LiveWrite
    \/ Fire
    \/ Idle

LiveSpec == Init /\ [][NextLive]_vars /\ WF_vars(Fire)

\* SpecCap: more servo objects than channels, attached with a calibration
\* of their own and detached, in any order.
CapAttach == \E h \in Handles :
        ~sketch_idle /\ attach3(h, 5, 100, 1400) /\ UNCHANGED sketch
CapDetach == \E h \in Handles :
        ~sketch_idle /\ detach(h) /\ UNCHANGED sketch

NextCap ==
    \/ CapAttach
    \/ CapDetach
    \/ Fire

SpecCap == Init /\ [][NextCap]_vars

\* SpecWrite: servos attached with several calibrations and commanded with
\* angles and pulse widths inside and outside them.
\* Servo 0 is the calibrated one; the others run with the defaults.
WriteAttach == \E b \in BoundsArgs :
        /\ ~sketch_idle
        /\ attach(0, 5, b[1], b[2], DEFAULT_NEUTRAL_PULSE_WIDTH)
        /\ UNCHANGED sketch
WriteAngle == \E v \in WriteValues :
        ~sketch_idle /\ write(0, v) /\ UNCHANGED sketch
WriteMicros == \E v \in MicrosValues :
        ~sketch_idle /\ writeMicroseconds(0, v) /\ UNCHANGED sketch
OtherAttach == \E h \in WriteHandles \ {0} :
        ~sketch_idle /\ attach1(h, 0) /\ UNCHANGED sketch
OtherMicros == \E h \in WriteHandles \ {0} :
        ~sketch_idle /\ writeMicroseconds(h, 1200) /\ UNCHANGED sketch

NextWrite ==
    \/ WriteAttach
    \/ WriteAngle
    \/ WriteMicros
    \/ OtherAttach
    \/ OtherMicros
    \/ Fire

SpecWrite == Init /\ [][NextWrite]_vars

\* SpecFind: the schedule builder applied to every channel table, whether
\* the calls above can build it or not.  `ret` holds the count it returns.
Tables == [Slots -> {-1} \cup Pins]

InitFind ==
    /\ software_servo_pins \in Tables
    /\ software_servo_pulse_lenght = [i \in Slots |-> DEFAULT_NEUTRAL_PULSE_WIDTH]
    /\ software_servo_current_servo = 0
    /\ software_servo_map = 0
    /\ software_servo_next_servo = [i \in Slots |-> (i + 1) % MAX_SERVOS]
    /\ software_servo_time_to_next_pulse = [i \in Slots |-> REFRESH_INTERVAL]
    /\ timer_armed = FALSE
    /\ timer_period = 0
    /\ _id = [h \in Handles |-> -1]
    /\ _attached = [h \in Handles |-> FALSE]
    /\ _minUs = [h \in Handles |-> DEFAULT_MIN_PULSE_WIDTH]
    /\ _maxUs = [h \in Handles |-> DEFAULT_MAX_PULSE_WIDTH]
    /\ pin_output = {}
    /\ ret = NoRet
    /\ run = <<>>
    /\ sketch_idle = FALSE
    /\ call = NoCall

Rebuild ==
    /\ ret = NoRet
    /\ \E s \in {find_times_between_pulses(software_servo_pins, software_servo_next_servo,
                                           software_servo_time_to_next_pulse)} :
           /\ software_servo_next_servo' = s.next
           /\ software_servo_time_to_next_pulse' = s.time
           /\ ret' = s.finded
    /\ UNCHANGED <<table, software_servo_current_servo, timer, handles,
                   pin_output, run, sketch>>

NextFind == Rebuild

SpecFind == InitFind /\ [][NextFind]_vars

\* SpecRead: servos attached with calibrations in and out of range, in and
\* out of order, written to, detached and read back.  The timer is left out:
\* the calls that read do not depend on the emitter.
ReadAttach == \E h \in ReadHandles, b \in ReadBounds, v \in ReadValues :
        ~sketch_idle /\ attach(h, 5, b[1], b[2], v) /\ UNCHANGED sketch
ReadDetach == \E h \in ReadHandles :
        ~sketch_idle /\ detach(h) /\ UNCHANGED sketch
ReadWrite == \E h \in ReadHandles, v \in ReadValues :
        ~sketch_idle /\ write(h, v) /\ UNCHANGED sketch
ReadAngle == \E h \in ReadHandles :
        ~sketch_idle /\ read(h)
ReadMicros == \E h \in ReadHandles :
        ~sketch_idle /\ readMicroseconds_call(h)

NextRead ==
    \/ ReadAttach
    \/ ReadDetach
    \/ ReadWrite
    \/ ReadAngle
    \/ ReadMicros

SpecRead == Init /\ [][NextRead]_vars

\* SpecStep: the user calls run one statement at a time and the timer may
\* fire between any two statements (the callback itself runs to its end).
\* `call` holds the call in progress: its arguments and locals, and in pc
\* the source line of the statement to run next.  The schedule builder is
\* taken as one statement.

\* the statement leaves the call at line pc
goto(pc) == call' = [call EXCEPT !.pc = pc]

\* the call returns: attach() returns its pin, the others nothing
return_from_call ==
    /\ ret' = IF call.op = "attach" THEN ToUint8(call.pin) ELSE NoRet
    /\ call' = NoCall

\* what no statement of a user call changes
user_frame == run' = <<>> /\ UNCHANGED <<software_servo_current_servo, sketch_idle>>

\* attach(): lines 145-148, entry, digitalWrite() and pinMode()
attach_145 == \E h \in StepHandles, b \in StepBounds, v \in StepValues :
    /\ call.pc = "idle"
    /\ call' = [NoCall EXCEPT !.op = "attach", !.h = h, !.pin = 5,
                              !.minUs = b[1], !.maxUs = b[2], !.value = v,
                              !.pc = IF _attached[h] THEN "176" ELSE "151"]
    /\ pin_output' = IF _attached[h] THEN pin_output ELSE pin_output \cup {5}
    /\ user_frame
    /\ UNCHANGED <<table, schedule, timer, handles, ret>>

\* lines 151-156 and 165-168: the search of a free slot and the store of
\* the pin, or the return of 0
attach_151 == \E slot \in {first_free(software_servo_pins, 0)} :
    /\ call.pc = "151"
    /\ user_frame
    /\ UNCHANGED <<software_servo_pulse_lenght, software_servo_map, schedule,
                   timer, handles, pin_output>>
    /\ IF slot # -1
       THEN /\ software_servo_pins' = [software_servo_pins EXCEPT ![slot] = call.pin]
            /\ call' = [call EXCEPT !.i = slot, !.pc = "157"]
            /\ UNCHANGED ret
       ELSE /\ UNCHANGED software_servo_pins
            /\ IF _id[call.h] = -1
               THEN ret' = 0 /\ call' = NoCall
               ELSE goto("170") /\ UNCHANGED ret

\* line 157: software_servo_pulse_lenght[i] = value
attach_157 ==
    /\ call.pc = "157"
    /\ software_servo_pulse_lenght' =
           [software_servo_pulse_lenght EXCEPT ![call.i] = call.value]
    /\ goto("159")
    /\ user_frame
    /\ UNCHANGED <<software_servo_pins, software_servo_map, schedule, timer,
                   handles, pin_output, ret>>

\* line 159: _id = i
attach_159 ==
    /\ call.pc = "159"
    /\ _id' = [_id EXCEPT ![call.h] = call.i]
    /\ goto("170")
    /\ user_frame
    /\ UNCHANGED <<table, schedule, timer, _attached, _minUs, _maxUs,
                   pin_output, ret>>

\* line 170: _attached = true
attach_170 ==
    /\ call.pc = "170"
    /\ _attached' = [_attached EXCEPT ![call.h] = TRUE]
    /\ goto("176")
    /\ user_frame
    /\ UNCHANGED <<table, schedule, timer, _id, _minUs, _maxUs, pin_output, ret>>

\* line 176: _maxUs = max(250, min(3000, maxUs))
attach_176 ==
    /\ call.pc = "176"
    /\ _maxUs' = [_maxUs EXCEPT ![call.h] = Max2(250, Min2(3000, call.maxUs))]
    /\ goto("177")
    /\ user_frame
    /\ UNCHANGED <<table, schedule, timer, _id, _attached, _minUs, pin_output, ret>>

\* line 177: _minUs = max(200, min(_maxUs, minUs)); line 179 calls write()
attach_177 ==
    /\ call.pc = "177"
    /\ _minUs' = [_minUs EXCEPT ![call.h] =
                      Max2(200, Min2(_maxUs[call.h], call.minUs))]
    /\ goto("199")
    /\ user_frame
    /\ UNCHANGED <<table, schedule, timer, _id, _attached, _maxUs, pin_output, ret>>

\* write(): entry
write_196 == \E h \in StepHandles, v \in StepValues :
    /\ call.pc = "idle"
    /\ call' = [NoCall EXCEPT !.op = "write", !.h = h, !.value = v, !.pc = "199"]
    /\ user_frame
    /\ UNCHANGED <<table, schedule, timer, handles, pin_output, ret>>

\* lines 199-206: the conversion of an angle, then the call of
\* writeMicroseconds()
write_199 ==
    /\ call.pc = "199"
    /\ call' = [call EXCEPT
                   !.value = IF call.value < 200
                             THEN improved_map(constrain(call.value, 0, 180), 0, 180,
                                               _minUs[call.h], _maxUs[call.h])
                             ELSE call.value,
                   !.pc = "211"]
    /\ user_frame
    /\ UNCHANGED <<table, schedule, timer, handles, pin_output, ret>>

\* writeMicroseconds(): entry
writeMicroseconds_209 == \E h \in StepHandles, v \in StepMicros :
    /\ call.pc = "idle"
    /\ call' = [NoCall EXCEPT !.op = "writeMicroseconds", !.h = h, !.value = v,
                              !.pc = "211"]
    /\ user_frame
    /\ UNCHANGED <<table, schedule, timer, handles, pin_output, ret>>

\* lines 211-212: value = constrain(value, _minUs, _maxUs); if (_attached)
writeMicroseconds_211 ==
    /\ call.pc = "211"
    /\ user_frame
    /\ UNCHANGED <<table, schedule, timer, handles, pin_output>>
    /\ IF _attached[call.h]
       THEN /\ call' = [call EXCEPT
                           !.value = constrain(call.value, _minUs[call.h],
                                               _maxUs[call.h]),
                           !.pc = "214"]
            /\ UNCHANGED ret
       ELSE return_from_call

\* line 214: software_servo_pulse_lenght[_id] = value
writeMicroseconds_214 ==
    /\ call.pc = "214"
    /\ software_servo_pulse_lenght' =
           [software_servo_pulse_lenght EXCEPT ![_id[call.h]] = call.value]
    /\ goto("215")
    /\ user_frame
    /\ UNCHANGED <<software_servo_pins, software_servo_map, schedule, timer,
                   handles, pin_output, ret>>

\* line 215: find_times_between_pulses()
writeMicroseconds_215 ==
    \E s \in {find_times_between_pulses(software_servo_pins, software_servo_next_servo,
                                        software_servo_time_to_next_pulse)} :
        /\ call.pc = "215"
        /\ software_servo_next_servo' = s.next
        /\ software_servo_time_to_next_pulse' = s.time
        /\ call' = [call EXCEPT !.finded = s.finded, !.pc = "217"]
        /\ user_frame
        /\ UNCHANGED <<table, timer, handles, pin_output, ret>>

\* line 217 or 224: the bit of the slot is set or cleared
writeMicroseconds_217 ==
    /\ call.pc = "217"
    /\ software_servo_map' = IF call.finded > 0
                             THEN SetBit(software_servo_map, _id[call.h])
                             ELSE ClearBit(software_servo_map, _id[call.h])
    /\ goto("218")
    /\ user_frame
    /\ UNCHANGED <<software_servo_pins, software_servo_pulse_lenght, schedule,
                   timer, handles, pin_output, ret>>

\* line 218 or 225: os_timer_disarm()
writeMicroseconds_218 ==
    /\ call.pc = "218"
    /\ timer_armed' = FALSE
    /\ user_frame
    /\ UNCHANGED <<table, schedule, timer_period, handles, pin_output>>
    /\ IF call.finded > 0
       THEN goto("220") /\ UNCHANGED ret
       ELSE return_from_call

\* lines 219-220: os_timer_setfn() and os_timer_arm(); the call returns
writeMicroseconds_220 ==
    /\ call.pc = "220"
    /\ timer_armed' = TRUE
    /\ timer_period' = software_servo_time_to_next_pulse[software_servo_current_servo]
    /\ return_from_call
    /\ user_frame
    /\ UNCHANGED <<table, schedule, handles, pin_output>>

\* detach(): lines 186-188, entry and software_servo_map &= ~(1 << _id)
detach_186 == \E h \in StepHandles :
    /\ call.pc = "idle"
    /\ _attached[h]
    /\ software_servo_map' = ClearBit(software_servo_map, _id[h])
    /\ call' = [NoCall EXCEPT !.op = "detach", !.h = h, !.pc = "189"]
    /\ user_frame
    /\ UNCHANGED <<software_servo_pins, software_servo_pulse_lenght, schedule,
                   timer, handles, pin_output, ret>>

\* line 189: software_servo_pulse_lenght[_id] = DEFAULT_NEUTRAL_PULSE_WIDTH
detach_189 ==
    /\ call.pc = "189"
    /\ software_servo_pulse_lenght' =
           [software_servo_pulse_lenght EXCEPT ![_id[call.h]] = DEFAULT_NEUTRAL_PULSE_WIDTH]
    /\ goto("191")
    /\ user_frame
    /\ UNCHANGED <<software_servo_pins, software_servo_map, schedule, timer,
                   handles, pin_output, ret>>

\* line 191: _id = -1
detach_191 ==
    /\ call.pc = "191"
    /\ _id' = [_id EXCEPT ![call.h] = -1]
    /\ goto("192")
    /\ user_frame
    /\ UNCHANGED <<table, schedule, timer, _attached, _minUs, _maxUs,
                   pin_output, ret>>

\* line 192: _attached = false; the call returns
detach_192 ==
    /\ call.pc = "192"
    /\ _attached' = [_attached EXCEPT ![call.h] = FALSE]
    /\ return_from_call
    /\ user_frame
    /\ UNCHANGED <<table, schedule, timer, _id, _minUs, _maxUs, pin_output>>

NextStep ==
    \/ attach_145
    \/ attach_151
    \/ attach_157
    \/ attach_159
    \/ attach_170
    \/ attach_176
    \/ attach_177
    \/ write_196
    \/ write_199
    \/ writeMicroseconds_209
    \/ writeMicroseconds_211
    \/ writeMicroseconds_214
    \/ writeMicroseconds_215
    \/ writeMicroseconds_217
    \/ writeMicroseconds_218
    \/ writeMicroseconds_220
    \/ detach_186
    \/ detach_189
    \/ detach_191
    \/ detach_192
    \/ Fire

SpecStep == Init /\ [][NextStep]_vars

\* -------------------------------------------------------------- properties

\* the handles attached, and the pins they are bound to
Attached == {h \in Handles : _attached[h]}
BoundPins == {software_servo_pins[_id[h]] : h \in Attached}

\* C1: once a handle is detached the emitter drives no pulse on the pin it
\* was bound to until some handle is attached to that pin again; that is,
\* every pulse emitted since the last user call is on a pin that an attached
\* handle is bound to.
C1_NoPulseOnDetachedPin ==
    \A k \in 1 .. Len(run) : run[k].pin \in BoundPins

\* the sum of the delays armed by the pulses a .. b of the run
RECURSIVE SumDelay(_, _)
SumDelay(a, b) == IF a > b THEN 0 ELSE run[a].delay + SumDelay(a + 1, b)

\* pulses a and b > a of the run are two successive pulses of one slot
SuccessivePulses(a, b) ==
    /\ a < b
    /\ run[a].slot = run[b].slot
    /\ \A k \in (a + 1) .. (b - 1) : run[k].slot # run[a].slot

PulsedAsWritten(h) ==
    /\ run # <<>>
    /\ run[Len(run)].slot = _id[h]
    /\ run[Len(run)].pin = software_servo_pins[_id[h]]
    /\ run[Len(run)].width = readMicroseconds(h)

\* C3: once the sketch makes no more calls, every attached handle is pulsed
\* again and again on its pin with the width last stored for it, and the
\* timer stays armed.
C3_PulsedWithWrittenWidth ==
    \A h \in LiveHandles :
        /\ [](sketch_idle /\ _attached[h] => <>PulsedAsWritten(h))
        /\ [](sketch_idle /\ _attached[h] => timer_armed)

\* C3 witness: the idle sketch has left handle 0 attached with the width
\* 1000 written to it, and the emitter has just pulsed it.
C3_Witness ==
    /\ sketch_idle
    /\ _attached[0]
    /\ readMicroseconds(0) = 1000
    /\ PulsedAsWritten(0)

\* C4: detach() frees the slot the handle occupied (its pin becomes -1, what
\* attach() searches for), so an attach() on an unattached handle succeeds
\* whenever fewer than MAX_SERVOS handles are attached.
C4_DetachFreesSlot ==
    [][/\ \A h \in Handles :
              (_attached[h] /\ ~_attached'[h]) => software_servo_pins'[_id[h]] = -1
       /\ \A h \in Handles :
              (/\ ~_attached[h]
               /\ Cardinality(Attached) < MAX_SERVOS
               /\ attach3(h, 5, 100, 1400)) => _attached'[h]
      ]_vars

\* C5: at most MAX_SERVOS handles are attached, and attach() on an
\* unattached handle when no slot is free returns 0 and leaves the handle,
\* the table, the schedule, the timer and every other handle as they were.
C5_AttachBeyondCapacity ==
    [][/\ Cardinality({h \in Handles : _attached'[h]}) <= MAX_SERVOS
       /\ \A h \in Handles :
              (/\ ~_attached[h]
               /\ \A i \in Slots : software_servo_pins[i] # -1
               /\ attach3(h, 5, 100, 1400))
              => /\ ret' = 0
                 /\ ~_attached'[h]
                 /\ UNCHANGED <<table, schedule, timer, handles>>
      ]_vars

\* C5 witness: an attach has just failed while MAX_SERVOS other handles are
\* attached.
C5_Witness ==
    /\ ret = 0
    /\ Cardinality(Attached) = MAX_SERVOS
    /\ \E h \in Handles : ~_attached[h]

\* the lowest-indexed slot whose pin is -1
LowestFree(pins) ==
    CHOOSE i \in Slots : pins[i] = -1 /\ \A j \in 0 .. (i - 1) : pins[j] # -1

\* C6: a successful attach() on an unattached handle binds it to the
\* lowest-indexed free slot, stores the pin there and changes no other
\* slot's pin or pulse width.
C6_AttachLowestFree ==
    [][\A h \in LifeHandles, pin \in Pins :
           (~_attached[h] /\ _attached'[h] /\ attach1(h, pin))
           => /\ _id'[h] = LowestFree(software_servo_pins)
              /\ software_servo_pins' =
                     [software_servo_pins EXCEPT ![LowestFree(software_servo_pins)] = pin]
              /\ \A i \in Slots \ {_id'[h]} :
                     software_servo_pulse_lenght'[i] = software_servo_pulse_lenght[i]
      ]_vars

\* C6 witness: a handle is bound to slot 2 with pin 0 while slot 1, claimed
\* earlier, has lost its handle.
C6_Witness ==
    \E h \in LifeHandles :
        /\ _attached[h]
        /\ _id[h] = 2
        /\ software_servo_pins[2] = 0
        /\ ret = 0
        /\ 1 \notin {_id[g] : g \in Attached}

\* the value v clamped to [lo, hi], lo <= hi
Clamp(v, lo, hi) == Max2(lo, Min2(v, hi))

\* C7: after writeMicroseconds(v) on an attached handle readMicroseconds()
\* returns clamp(v, min_us, max_us), and no other slot's pulse width changed.
C7_WriteMicrosClamps ==
    [][\A h \in WriteHandles, v \in MicrosValues \cup {1200} :
           (_attached[h] /\ writeMicroseconds(h, v))
           => /\ readMicroseconds(h)' = Clamp(v, _minUs[h], _maxUs[h])
              /\ \A i \in Slots \ {_id[h]} :
                     software_servo_pulse_lenght'[i] = software_servo_pulse_lenght[i]
      ]_vars

\* C7 witness: handle 0 holds a value clamped to its upper bound while the
\* other slot holds the value written to it.
C7_Witness ==
    /\ _attached[0] /\ _attached[1]
    /\ _maxUs[0] = 1400
    /\ readMicroseconds(0) = 1400
    /\ readMicroseconds(1) = 1200

\* C8: write(value) with value < 200 stores the angle, clamped to [0,180],
\* scaled to [min_us, max_us] and rounded to the nearest microsecond: min_us
\* for 0 and below, max_us for 180..199, 1500 for 90 with bounds [1000,2000];
\* with value >= 200 it stores clamp(value, min_us, max_us).
C8_WriteAngleOrMicros ==
    [][\A h \in WriteHandles, v \in WriteValues :
           (_attached[h] /\ write(h, v))
           => LET r == readMicroseconds(h)'
                  lo == _minUs[h]
                  hi == _maxUs[h]
                  angle == Clamp(v, 0, 180)
                  off == 180 * (r - lo) - angle * (hi - lo)
              IN  IF v < 200
                  THEN /\ -90 <= off /\ off <= 90
                       /\ v <= 0 => r = lo
                       /\ v >= 180 => r = hi
                       /\ (v = 90 /\ lo = 1000 /\ hi = 2000) => r = 1500
                  ELSE r = Clamp(v, lo, hi)
      ]_vars

\* C8 witness: with bounds [1000,2000] an angle between the end points has
\* been written and stored as 1278 microseconds.
C8_Witness ==
    /\ _attached[0]
    /\ _minUs[0] = 1000 /\ _maxUs[0] = 2000
    /\ readMicroseconds(0) = 1278

\* the cyclic distance, 1 .. MAX_SERVOS, from slot i to the first slot with
\* an assigned pin after it (i itself last)
Distance(i) ==
    CHOOSE d \in 1 .. MAX_SERVOS :
        /\ software_servo_pins[(i + d) % MAX_SERVOS] # -1
        /\ \A e \in 1 .. (d - 1) : software_servo_pins[(i + e) % MAX_SERVOS] = -1

AssignedSlots == {i \in Slots : software_servo_pins[i] # -1}

\* C9: after find_times_between_pulses() on a table with an assigned pin,
\* next[i] is the first assigned slot after i in cyclic order and delay[i]
\* is the distance to it times REFRESH_INTERVAL; one assigned slot s gives
\* next[s] = s and a delay of a full cycle, a full table gives every slot
\* its neighbour and one REFRESH_INTERVAL.
C9_ScheduleIsCyclicSuccessor ==
    (ret # NoRet /\ AssignedSlots # {}) =>
        /\ \A i \in Slots :
               /\ software_servo_next_servo[i] = (i + Distance(i)) % MAX_SERVOS
               /\ software_servo_time_to_next_pulse[i] = Distance(i) * REFRESH_INTERVAL
        /\ \A s \in Slots :
               AssignedSlots = {s} =>
                   /\ software_servo_next_servo[s] = s
                   /\ software_servo_time_to_next_pulse[s] = MAX_SERVOS * REFRESH_INTERVAL
        /\ AssignedSlots = Slots =>
               \A i \in Slots :
                   /\ software_servo_next_servo[i] = (i + 1) % MAX_SERVOS
                   /\ software_servo_time_to_next_pulse[i] = REFRESH_INTERVAL

\* C9 witness: the schedule has been built for a table whose only assigned
\* slot is slot 2.
C9_Witness ==
    /\ ret # NoRet
    /\ AssignedSlots = {2}
    /\ software_servo_next_servo[2] = 2

\* C10: detaching the only attached handle leaves the bitmask 0; the next
\* emitter invocation then disarms the timer, emits no pulse and leaves the
\* cursor where it was; and the timer is armed again only by a write on an
\* attached handle (write(), or the write attach() ends with).
C10_IdleAfterLastDetach ==
    [][/\ \A h \in LifeHandles :
              (Attached = {h} /\ detach(h)) => software_servo_map' = 0
       /\ (software_servo_map = 0 /\ Fire)
              => /\ ~timer_armed'
                 /\ run' = <<>>
                 /\ software_servo_current_servo' = software_servo_current_servo
       /\ (~timer_armed /\ timer_armed')
              => \E h \in LifeHandles :
                     /\ _attached'[h]
                     /\ \/ write(h, 0)
                        \/ \E pin \in Pins : attach1(h, pin)
      ]_vars

\* C10 witness: a slot has been claimed, no handle is attached any more and
\* the emitter has disarmed the timer.
C10_Witness ==
    /\ software_servo_pins[0] # -1
    /\ Attached = {}
    /\ software_servo_map = 0
    /\ ~timer_armed

\* C11: attach() returns 0 exactly when it failed, that is, when the handle
\* is not attached after the call; an attach that leaves the handle attached
\* returns a value other than 0, whatever the pin.
C11_ZeroIffAttachFailed ==
    [][\A h \in LifeHandles, pin \in Pins :
           (ret' # NoRet /\ attach1(h, pin)) => (ret' = 0 <=> ~_attached'[h])
      ]_vars

\* C12: an attach() that succeeds returns the pin stored in the slot the
\* handle is bound to after the call; on a handle that was attached already
\* the slot id and the channel table's pins are left as they were.
C12_AttachReturnsBoundPin ==
    [][\A h \in LifeHandles, pin \in Pins :
           (ret' # NoRet /\ _attached'[h] /\ attach1(h, pin))
               => /\ ret' = software_servo_pins'[_id'[h]]
                  /\ _attached[h] =>
                         /\ _id'[h] = _id[h]
                         /\ software_servo_pins' = software_servo_pins
      ]_vars

\* C13: on a handle that is not attached read() and readMicroseconds()
\* both return 0, whatever the handle's min and max.
C13_UnattachedReadsZero ==
    [][\A h \in ReadHandles :
           ~_attached[h] =>
               /\ read(h) => ret' = 0
               /\ readMicroseconds_call(h) => ret' = 0
      ]_vars

\* C14: on an attached handle read() divides by no zero, whatever bounds
\* attach() was given, and returns an angle between 0 and 180.
C14_ReadInRange ==
    [][\A h \in ReadHandles :
           (_attached[h] /\ read(h)) =>
               /\ _maxUs[h] - _minUs[h] # 0
               /\ ret' \in 0 .. 180
      ]_vars

\* C15: with the bounds a handle holds, converting an angle of 0 .. 180 to a
\* pulse width, the width back to an angle and that angle to a width again
\* gives the first width.
C15_RoundTrip ==
    \A h \in ReadHandles : \A a \in 0 .. 180 :
        \A o \in us_to_angle(angle_to_us(a, _minUs[h], _maxUs[h]),
                             _minUs[h], _maxUs[h]) :
            /\ ~o.trap
            /\ angle_to_us(o.value, _minUs[h], _maxUs[h])
                   = angle_to_us(a, _minUs[h], _maxUs[h])

\* C16: every handle holds 200 <= min <= max <= 3000 and max >= 250,
\* whatever (min, max) pair of 16-bit values attach() was given, a pair with
\* min > max or with values out of range included.
C16_BoundsInRange ==
    \A h \in ReadHandles :
        /\ 200 <= _minUs[h]
        /\ _minUs[h] <= _maxUs[h]
        /\ _maxUs[h] <= 3000
        /\ _maxUs[h] >= 250

\* C16 witness: a handle attached with (65535, 0) holds 250 for both bounds.
C16_Witness ==
    \E h \in ReadHandles :
        _attached[h] /\ _minUs[h] = 250 /\ _maxUs[h] = 250

\* the attached handles bound to slot i
Owners(i) == {h \in Handles : _attached[h] /\ _id[h] = i}

\* C19: after every completed attach, detach or write, bit i of the bitmask
\* is set exactly when one attached handle has slot id i, no two attached
\* handles share a slot id, the slot of every attached handle has a pin
\* assigned, and every handle that is not attached has the id -1.
C19_MapMatchesHandles ==
    /\ \A i \in Slots :
           Bit(software_servo_map, i) = 1 <=> Cardinality(Owners(i)) = 1
    /\ \A i \in Slots : Cardinality(Owners(i)) <= 1
    /\ \A h \in Handles :
           IF _attached[h]
           THEN _id[h] \in Slots /\ software_servo_pins[_id[h]] # -1
           ELSE _id[h] = -1

\* C19 witness: a handle has been detached from slot 0 and another handle
\* is attached to slot 1, the only bit set.
C19_Witness ==
    /\ software_servo_pins[0] # -1
    /\ Owners(0) = {}
    /\ Owners(1) # {}
    /\ software_servo_map = 2

\* the count find_times_between_pulses() returns for the channel table T
\* (the count does not depend on the schedule it overwrites)
FindCount(T) ==
    find_times_between_pulses(T, [i \in Slots |-> (i + 1) % MAX_SERVOS],
                              [i \in Slots |-> REFRESH_INTERVAL]).finded

\* for every channel table the count is MAX_SERVOS or 0
CountIsAllOrNone ==
    \A T \in Tables :
        FindCount(T) = IF \E i \in Slots : T[i] # -1 THEN MAX_SERVOS ELSE 0

\* C20: find_times_between_pulses() returns MAX_SERVOS when a slot has a pin
\* assigned and 0 otherwise; so writeMicroseconds() on an attached handle
\* never disarms: it sets the bit of the handle's slot and leaves the timer
\* armed with the delay of the current slot.
C20_WriteAlwaysArms ==
    [][/\ CountIsAllOrNone
       /\ \A h \in WriteHandles, v \in MicrosValues :
              (ret' = NoRet /\ _attached[h] /\ writeMicroseconds(h, v))
                  => /\ Bit(software_servo_map', _id[h]) = 1
                     /\ timer_armed'
                     /\ timer_period' = software_servo_time_to_next_pulse'[
                                            software_servo_current_servo']
      ]_vars

\* C20 witness: writeMicroseconds(1200) has just returned on the attached
\* servo 0, the bit of its slot is set and the timer is armed.
C20_Witness ==
    /\ _attached[0]
    /\ ret = NoRet
    /\ run = <<>>
    /\ software_servo_pulse_lenght[_id[0]] = 1200
    /\ Bit(software_servo_map, _id[0]) = 1
    /\ timer_armed

\* the lines of a user call that lie between a store to the channel table
\* and the end of the schedule rebuild that follows it (detach() has none,
\* its lines after the first store run to the return)
BetweenStoreAndRebuild == {"157", "159", "170", "215", "189", "191", "192"}

\* C17: a user call that changes the channel table or the schedule has the
\* timer disarmed at each such store, so the emitter never runs between a
\* store to pins, pulse widths or bitmask and the end of the rebuild.
C17_WritersExcludeEmitter ==
    [][/\ (table' # table \/ schedule' # schedule) => ~timer_armed
       /\ call.pc \in BetweenStoreAndRebuild => ~Fire
      ]_vars

\* C18: every pulse the emitter emits for a slot that a handle has claimed
\* has a width within that handle's min and max, wherever in a user call
\* the timer fires.
C18_PulseWithinOwnerBounds ==
    [][(call' = call /\ Fire /\ run' # <<>>) =>
           \A h \in StepHandles :
               _id[h] = run'[Len(run')].slot =>
                   /\ _minUs[h] <= run'[Len(run')].width
                   /\ run'[Len(run')].width <= _maxUs[h]
      ]_vars

====
